---------------------------- MODULE Spec2Model ----------------------------
(***************************************************************************)
(* Model of the task-expansion core of gemini-mcp-task-master:             *)
(*   - getBestAvailableAIModel and the three client constructors of        *)
(*     mcp-server/src/core/utils/ai-client-utils.js (provider resolution), *)
(*   - expandTaskDirect of the expand-task direct function (the pipeline   *)
(*     that reads the store, backs it up, calls the provider, parses the   *)
(*     answer and commits the subtasks).                                   *)
(***************************************************************************)
EXTENDS Integers, Sequences, FiniteSets, TLC

VARIABLES
    file,        \* content of tasks.json on disk
    bak,         \* content of tasks.json.bak on disk
    silentMode,  \* the process-wide silent-mode flag of utils.js
    procEnv,     \* process.env
    calls,       \* number of expandTaskDirect invocations started so far
    inv,         \* per pipeline instance: position and locals of expandTaskDirect
    resolveIn,   \* arguments of the last getBestAvailableAIModel call
    resolveOut   \* what that call returned or threw

vars == <<file, bak, silentMode, procEnv, calls, inv, resolveIn, resolveOut>>

---------------------------------------------------------------------------
(* JavaScript values                                                       *)

\* undefined, as the value of an absent property or argument
Undefined == "<undefined>"

\* truthiness of a string-or-undefined value
Truthy(v) == v \notin {Undefined, ""}

\* a || b
Or(a, b) == IF Truthy(a) THEN a ELSE b

\* String.prototype.toUpperCase on the setting values the model draws
toUpperCase(s) ==
    CASE s \in {"google", "Google", "GOOGLE"} -> "GOOGLE"
      [] s \in {"anthropic", "ANTHROPIC"} -> "ANTHROPIC"
      [] s = "openai" -> "OPENAI"
      [] OTHER -> s

---------------------------------------------------------------------------
(* Environments: session.env and process.env                              *)

SessionKeys == {Undefined, "sess-key"}
ProcessKeys == {Undefined, "", "proc-key"}
SessionProviders == {Undefined, "google", "openai"}
ProcessProviders == {Undefined, "", "google", "GOOGLE", "anthropic", "openai"}

SessionEnvs ==
    [ANTHROPIC_API_KEY : SessionKeys, GOOGLE_API_KEY : SessionKeys,
     PERPLEXITY_API_KEY : SessionKeys, AI_PROVIDER : SessionProviders]

ProcessEnvs ==
    [ANTHROPIC_API_KEY : ProcessKeys, GOOGLE_API_KEY : ProcessKeys,
     PERPLEXITY_API_KEY : ProcessKeys, AI_PROVIDER : ProcessProviders]

\* a session without env (session?.env?.X is undefined for every X)
NoSessionEnv ==
    [ANTHROPIC_API_KEY |-> Undefined, GOOGLE_API_KEY |-> Undefined,
     PERPLEXITY_API_KEY |-> Undefined, AI_PROVIDER |-> Undefined]

Options == [requiresResearch : BOOLEAN, claudeOverloaded : BOOLEAN]

---------------------------------------------------------------------------
(* ai-client-utils.js: client constructors                                 *)

Client(apiKey) == [ok |-> TRUE, apiKey |-> apiKey]
ClientError == [ok |-> FALSE, apiKey |-> ""]

getAnthropicClientForMCP(session, penv) ==
    LET apiKey == Or(session.ANTHROPIC_API_KEY, penv.ANTHROPIC_API_KEY)
    IN  IF ~Truthy(apiKey) THEN ClientError ELSE Client(apiKey)

getGoogleClientForMCP_ProcessFirst(session, penv) ==
    LET apiKey == Or(penv.GOOGLE_API_KEY, session.GOOGLE_API_KEY)
    IN  IF ~Truthy(apiKey) THEN ClientError ELSE Client(apiKey)

getGoogleClientForMCP(session, penv) ==
    LET apiKey == Or(session.GOOGLE_API_KEY, penv.GOOGLE_API_KEY)
    IN  IF ~Truthy(apiKey) THEN ClientError ELSE Client(apiKey)

\* openaiOK: whether the dynamic import('openai') succeeds
getPerplexityClientForMCP(session, penv, openaiOK) ==
    LET apiKey == Or(session.PERPLEXITY_API_KEY, penv.PERPLEXITY_API_KEY)
    IN  IF ~Truthy(apiKey) THEN ClientError
        ELSE IF ~openaiOK THEN ClientError
        ELSE Client(apiKey)

---------------------------------------------------------------------------
(* ai-client-utils.js: getBestAvailableAIModel                             *)

\* return { type, client, ... }; attempts lists the constructors called so far
Bind(type, client, attempts) ==
    [ok |-> TRUE, type |-> type, apiKey |-> client.apiKey, error |-> "",
     attempts |-> attempts]

\* throw new Error(msg)
Throw(msg, attempts) ==
    [ok |-> FALSE, type |-> "none", apiKey |-> "", error |-> msg,
     attempts |-> attempts]

PrimaryProvider(session, penv) ==
    LET setting == Or(session.AI_PROVIDER, penv.AI_PROVIDER)
        upper == IF setting = Undefined THEN Undefined ELSE toUpperCase(setting)
    IN  Or(upper, "ANTHROPIC")

PerplexityKey(session, penv) ==
    Or(session.PERPLEXITY_API_KEY, penv.PERPLEXITY_API_KEY)

ResearchFallback_AlwaysClaude(session, penv, primaryProvider) ==
    LET client == getAnthropicClientForMCP(session, penv)
    IN  IF client.ok THEN Bind("claude", client, <<"claude">>)
        ELSE Throw("No AI models available for research", <<"claude">>)

\* lines 147-178: research wanted, no Perplexity key
ResearchFallback(session, penv, primaryProvider) ==
    IF primaryProvider = "GOOGLE"
    THEN LET client == getGoogleClientForMCP(session, penv)
         IN  IF client.ok THEN Bind("google", client, <<"google">>)
             ELSE Throw("No AI models available for research", <<"google">>)
    ELSE LET client == getAnthropicClientForMCP(session, penv)
         IN  IF client.ok THEN Bind("claude", client, <<"claude">>)
             ELSE Throw("No AI models available for research", <<"claude">>)

OverloadFallback_PerplexityFirst(session, penv, openaiOK, primaryProvider, att) ==
    LET tryGoogle == \/ primaryProvider = "GOOGLE"
                     \/ Truthy(session.GOOGLE_API_KEY)
                     \/ Truthy(penv.GOOGLE_API_KEY)
        google == getGoogleClientForMCP(session, penv)
        tryPerplexity == Truthy(PerplexityKey(session, penv))
        perplexity == getPerplexityClientForMCP(session, penv, openaiOK)
        att1 == IF tryPerplexity THEN Append(att, "perplexity") ELSE att
        att2 == IF tryGoogle THEN Append(att1, "google") ELSE att1
        anthropic == getAnthropicClientForMCP(session, penv)
        att3 == Append(att2, "claude")
    IN  IF tryPerplexity /\ perplexity.ok THEN Bind("perplexity", perplexity, att1)
        ELSE IF tryGoogle /\ google.ok THEN Bind("google", google, att2)
        ELSE IF anthropic.ok THEN Bind("claude", anthropic, att3)
        ELSE Throw("No AI models available, Claude overloaded and fallbacks failed.",
                   att3)

\* lines 194-246: claudeOverloaded
OverloadFallback(session, penv, openaiOK, primaryProvider, att) ==
    LET tryGoogle == \/ primaryProvider = "GOOGLE"
                     \/ Truthy(session.GOOGLE_API_KEY)
                     \/ Truthy(penv.GOOGLE_API_KEY)
        google == getGoogleClientForMCP(session, penv)
        att1 == IF tryGoogle THEN Append(att, "google") ELSE att
        tryPerplexity == Truthy(PerplexityKey(session, penv))
        perplexity == getPerplexityClientForMCP(session, penv, openaiOK)
        att2 == IF tryPerplexity THEN Append(att1, "perplexity") ELSE att1
        anthropic == getAnthropicClientForMCP(session, penv)
        att3 == Append(att2, "claude")
    IN  IF tryGoogle /\ google.ok THEN Bind("google", google, att1)
        ELSE IF tryPerplexity /\ perplexity.ok THEN Bind("perplexity", perplexity, att2)
        ELSE IF anthropic.ok THEN Bind("claude", anthropic, att3)
        ELSE Throw("No AI models available, Claude overloaded and fallbacks failed.",
                   att3)

NoPrimaryError ==
    "No primary AI models available. Please check your API keys and AI_PROVIDER setting."

\* lines 248-303: the configured primary provider, then the other one
DefaultProvider(session, penv, primaryProvider, att) ==
    LET google == getGoogleClientForMCP(session, penv)
        anthropic == getAnthropicClientForMCP(session, penv)
    IN  IF primaryProvider = "GOOGLE"
        THEN IF google.ok THEN Bind("google", google, Append(att, "google"))
             ELSE IF Truthy(Or(session.ANTHROPIC_API_KEY, penv.ANTHROPIC_API_KEY))
             THEN \* the key is there, so the constructor cannot throw
                  Bind("claude", anthropic, att \o <<"google", "claude">>)
             ELSE Throw(NoPrimaryError, Append(att, "google"))
        ELSE IF anthropic.ok THEN Bind("claude", anthropic, Append(att, "claude"))
             ELSE IF /\ primaryProvider = "ANTHROPIC"
                     /\ Truthy(Or(session.GOOGLE_API_KEY, penv.GOOGLE_API_KEY))
             THEN Bind("google", google, att \o <<"claude", "google">>)
             ELSE Throw(NoPrimaryError, Append(att, "claude"))

getBestAvailableAIModel_ResearchThrows(session, penv, options, openaiOK) ==
    LET primaryProvider == PrimaryProvider(session, penv)
        hasPerplexityKey == Truthy(PerplexityKey(session, penv))
        perplexity == getPerplexityClientForMCP(session, penv, openaiOK)
    IN  IF options.requiresResearch /\ ~hasPerplexityKey
        THEN ResearchFallback(session, penv, primaryProvider)
        ELSE IF options.requiresResearch
        THEN IF perplexity.ok THEN Bind("perplexity", perplexity, <<"perplexity">>)
             ELSE Throw("No AI models available for research", <<"perplexity">>)
        ELSE IF options.claudeOverloaded
             THEN OverloadFallback(session, penv, openaiOK, primaryProvider, <<>>)
             ELSE DefaultProvider(session, penv, primaryProvider, <<>>)

\* lines 136-304
getBestAvailableAIModel(session, penv, options, openaiOK) ==
    LET primaryProvider == PrimaryProvider(session, penv)
        hasPerplexityKey == Truthy(PerplexityKey(session, penv))
        perplexity == getPerplexityClientForMCP(session, penv, openaiOK)
    IN  IF options.requiresResearch /\ ~hasPerplexityKey
        THEN ResearchFallback(session, penv, primaryProvider)
        ELSE IF options.requiresResearch /\ perplexity.ok
        THEN Bind("perplexity", perplexity, <<"perplexity">>)
        ELSE LET att == IF options.requiresResearch THEN <<"perplexity">> ELSE <<>>
             IN  IF options.claudeOverloaded
                 THEN OverloadFallback(session, penv, openaiOK, primaryProvider, att)
                 ELSE DefaultProvider(session, penv, primaryProvider, att)

-------------------------------------------------------------------------------
(* The store file, its backup, and the task records                        *)

MaxOld == 2     \* most subtasks a task of the initial store has
MaxGen == 2     \* longest array a completion returns
MaxCalls == 2   \* expandTaskDirect invocations per behaviour

\* batch 0: present in the initial store; batch c: generated by invocation c
Subtask(id, batch) == [id |-> id, batch |-> batch]

OldSubtasks(n) == [i \in 1..n |-> Subtask(i, 0)]

\* hasSubtasks: whether the task object has a subtasks property at all
Task(id, status, hasSubtasks, subtasks) ==
    [id |-> id, title |-> IF id = 1 THEN "Build API" ELSE "Write docs",
     status |-> status, hasSubtasks |-> hasSubtasks, subtasks |-> subtasks]

\* no task: what find returns when nothing matches
NoTask ==
    [id |-> 0, title |-> "", status |-> "", hasSubtasks |-> FALSE,
     subtasks |-> <<>>]

Missing == [kind |-> "missing"]
JsonFile(hasTasks, tasks) == [kind |-> "json", hasTasks |-> hasTasks, tasks |-> tasks]

\* the parsed store held in memory; isNull: readJSON returned null
NullData == [isNull |-> TRUE, hasTasks |-> FALSE, tasks |-> <<>>]
Data(hasTasks, tasks) == [isNull |-> FALSE, hasTasks |-> hasTasks, tasks |-> tasks]

\* utils.js readJSON: the parsed content, or null when the file cannot be read
readJSON(content) ==
    IF content.kind = "json" THEN Data(content.hasTasks, content.tasks)
    ELSE NullData

\* utils.js writeJSON: what the file holds after a successful write of data
writeJSON(data) == JsonFile(data.hasTasks, data.tasks)

copyFileSync_Empty(content) == JsonFile(TRUE, <<>>)

\* fs.copyFileSync(tasksPath, backupPath): the backup is a byte copy of the file
copyFileSync(content) == content

FirstTasks ==
    {Task(1, st, FALSE, <<>>) : st \in {"pending", "done", "completed"}} \cup
    {Task(1, st, TRUE, OldSubtasks(n)) :
        st \in {"pending", "done", "completed"}, n \in 0..MaxOld}

SecondTasks == {Task(2, "in-progress", TRUE, OldSubtasks(1))}

InitFiles ==
    {Missing, JsonFile(FALSE, <<>>)} \cup
    {JsonFile(TRUE, <<t1, t2>>) : t1 \in FirstTasks, t2 \in SecondTasks}

FindIndex_LastOnMiss(tasks, taskId) ==
    IF \E i \in 1..Len(tasks) : tasks[i].id = taskId
    THEN CHOOSE i \in 1..Len(tasks) :
             /\ tasks[i].id = taskId
             /\ \A j \in 1..(i - 1) : tasks[j].id # taskId
    ELSE Len(tasks)

\* data.tasks.find / findIndex on t.id === taskId: first match, 0 when none
FindIndex(tasks, taskId) ==
    IF \E i \in 1..Len(tasks) : tasks[i].id = taskId
    THEN CHOOSE i \in 1..Len(tasks) :
             /\ tasks[i].id = taskId
             /\ \A j \in 1..(i - 1) : tasks[j].id # taskId
    ELSE 0

---------------------------------------------------------------------------
(* Arguments of expandTaskDirect                                           *)

\* a JavaScript number, NaN, null or undefined
Num(v) == [kind |-> "number", val |-> v]
NaN == [kind |-> "NaN", val |-> 0]
Null == [kind |-> "null", val |-> 0]
UndefinedNum == [kind |-> "undefined", val |-> 0]
Falsy_NotNumber(n) == n.kind # "number"
\* !n for a number, NaN, null or undefined
Falsy(n) == n.kind # "number" \/ n.val = 0

\* parseInt(s, 10) on the argument strings the model draws
parseInt(s) ==
    CASE s = "0" -> Num(0)
      [] s = "1" -> Num(1)
      [] s = "2" -> Num(2)
      [] s = "3" -> Num(3)
      [] OTHER -> NaN

IdArgs == {Undefined, "abc", "0", "1", "2", "3"}
NumArgs == {Undefined, "", "0", "abc", "1", "2"}
ForceArgs == {"true", "false", Undefined}

\* the argument objects drawn; num and research are varied one at a time
Args ==
    [tasksJsonPath : {Undefined, "tasks.json"}, id : IdArgs, num : NumArgs,
     research : {FALSE}, force : ForceArgs] \cup
    [tasksJsonPath : {Undefined, "tasks.json"}, id : IdArgs, num : {Undefined},
     research : {TRUE}, force : ForceArgs]

NoArgs ==
    [tasksJsonPath |-> Undefined, id |-> Undefined, num |-> Undefined,
     research |-> FALSE, force |-> Undefined]

\* line 67
TaskIdOf(id) == IF Truthy(id) THEN parseInt(id) ELSE Null
\* line 81
NumSubtasksOf(num) == IF Truthy(num) THEN parseInt(num) ELSE UndefinedNum
ForceFlagOf_Truthy(force) == force # "false"
\* line 84: force === true
ForceFlagOf(force) == force = "true"

DefaultSubtaskCount == 5

SubtaskCountOf_Nullish(numSubtasks) ==
    IF numSubtasks.kind \in {"null", "undefined"} THEN DefaultSubtaskCount
    ELSE numSubtasks.val

\* line 199: numSubtasks || 5
SubtaskCountOf(numSubtasks) ==
    IF Falsy(numSubtasks) THEN DefaultSubtaskCount ELSE numSubtasks.val

NextSubtaskIdOf_OffByOne(task) ==
    (IF task.hasSubtasks THEN Len(task.subtasks) ELSE 0) + 2

\* line 197: (task.subtasks?.length || 0) + 1
NextSubtaskIdOf(task) ==
    (IF task.hasSubtasks THEN Len(task.subtasks) ELSE 0) + 1

---------------------------------------------------------------------------
(* The completion and its parser (scripts/modules/ai-services.js)          *)

NoText == [kind |-> "none", ids |-> <<>>, batch |-> 0]

\* the id columns of the arrays drawn: consecutive ids from 1 or from 2, of every
\* length up to MaxGen (the empty array included), a duplicated id and a gap
IdSeqs ==
    {[i \in 1..n |-> start + i - 1] : start \in 1..2, n \in 0..MaxGen} \cup
    {<<1, 1>>, <<1, 3>>}

\* what a completion of invocation c can return: text holding no array, or an
\* array with the given ids
Texts(c) ==
    {[kind |-> "garbage", ids |-> <<>>, batch |-> c]} \cup
    {[kind |-> "array", ids |-> ids, batch |-> c] : ids \in IdSeqs}

\* parseSubtasksFromText(text, startId, expectedCount, parentTaskId): the array
\* must be non-empty with ids startId, startId+1, ...; expectedCount is not
\* enforced
parseSubtasksFromText(text, startId, expectedCount, parentTaskId) ==
    IF /\ text.kind = "array"
       /\ Len(text.ids) > 0
       /\ \A i \in 1..Len(text.ids) : text.ids[i] = startId + i - 1
    THEN [ok |-> TRUE,
          subtasks |-> [i \in 1..Len(text.ids) |-> Subtask(text.ids[i], text.batch)]]
    ELSE [ok |-> FALSE, subtasks |-> <<>>]

---------------------------------------------------------------------------
(* Provider resolution on its own: every environment, session and option   *)

NoResolve == [called |-> FALSE]

ResolveInputs ==
    [called : {TRUE}, session : SessionEnvs, options : Options,
     openaiOK : BOOLEAN]

InitResolve ==
    /\ procEnv \in ProcessEnvs
    /\ resolveIn \in ResolveInputs
    /\ resolveOut = NoResolve
    /\ file = [kind |-> "missing"]
    /\ bak = [kind |-> "missing"]
    /\ silentMode = FALSE
    /\ calls = 0
    /\ inv = <<>>

\* one call of getBestAvailableAIModel(session, options, log)
Resolve ==
    /\ resolveOut = NoResolve
    /\ resolveOut' = getBestAvailableAIModel(resolveIn.session, procEnv,
                                             resolveIn.options, resolveIn.openaiOK)
    /\ UNCHANGED <<file, bak, silentMode, procEnv, calls, inv, resolveIn>>

NextResolve == Resolve

SpecResolve == InitResolve /\ [][NextResolve]_vars

---------------------------------------------------------------------------
(* expandTaskDirect: results                                               *)

NoResult ==
    [returned |-> FALSE, success |-> FALSE, kind |-> "none", code |-> "",
     message |-> "", task |-> NoTask, subtasksAdded |-> 0,
     hasExistingSubtasks |-> FALSE, newSubtasks |-> <<>>, totalSubtasks |-> 0]

\* { success: false, error: { code, message }, fromCache: false }
Failure(code, message) ==
    [NoResult EXCEPT !.returned = TRUE, !.kind = "error", !.code = code,
                     !.message = message]

\* lines 146-155: expansion skipped
Skipped(task) ==
    [NoResult EXCEPT !.returned = TRUE, !.success = TRUE, !.kind = "skipped",
                     !.task = task, !.hasExistingSubtasks = TRUE]

Expanded_TotalBefore(originalTask, newSubtasks, subtasksAdded, totalSubtasks) ==
    [NoResult EXCEPT !.returned = TRUE, !.success = TRUE, !.kind = "expanded",
                     !.task = originalTask, !.newSubtasks = newSubtasks,
                     !.subtasksAdded = subtasksAdded,
                     !.totalSubtasks = Len(originalTask.subtasks)]

\* lines 268-278
Expanded(originalTask, newSubtasks, subtasksAdded, totalSubtasks) ==
    [NoResult EXCEPT !.returned = TRUE, !.success = TRUE, !.kind = "expanded",
                     !.task = originalTask, !.newSubtasks = newSubtasks,
                     !.subtasksAdded = subtasksAdded,
                     !.totalSubtasks = totalSubtasks]

---------------------------------------------------------------------------
(* expandTaskDirect: one pipeline instance                                 *)

\* locals of one invocation, its position (pc), and what it did:
\*   ops    the file operations and provider calls made, in order
\*   file0  the store file when the invocation started
\*   bak0   the backup file when the invocation started
\*   concurrent  the invocations (callNo) whose completion call was in flight
\*               when this one issued its own
IdleInv ==
    [pc |-> "idle", args |-> NoArgs, callNo |-> 0,
     taskId |-> Null, numSubtasks |-> UndefinedNum, useResearch |-> FALSE,
     forceFlag |-> FALSE, data |-> NullData, taskIx |-> 0,
     hasExistingSubtasks |-> FALSE, originalTask |-> NoTask,
     subtasksCountBefore |-> 0, nextSubtaskId |-> 0, subtaskCount |-> 0,
     provider |-> "none", generatedSubtasksText |-> NoText,
     newSubtasks |-> <<>>, result |-> NoResult,
     ops |-> <<>>, file0 |-> Missing, bak0 |-> Missing, concurrent |-> {}]

Instances == DOMAIN inv

\* the positions at which an instance is not running JavaScript: not started,
\* suspended in the await of line 225, or returned
Suspended == {"idle", "awaitAI", "returned"}

\* JavaScript runs each synchronous stretch to completion: an instance steps
\* only while no other instance is in the middle of one
Scheduled(p) == \A q \in Instances \ {p} : inv[q].pc \in Suspended

At(p, label) == inv[p].pc = label /\ Scheduled(p)

Goto(r, label) == [r EXCEPT !.pc = label]
Return(r, result) == [r EXCEPT !.pc = "returned", !.result = result]
Log(r, op) == [r EXCEPT !.ops = Append(@, op)]
TheTask(r) == r.data.tasks[r.taskIx]

\* line 129
IsCompleted_DoneOnly(task) == task.status = "done"
IsCompleted(task) == task.status = "done" \/ task.status = "completed"

\* line 141
HasExistingSubtasks(task) == task.hasSubtasks /\ Len(task.subtasks) > 0

ClearSubtasks_Keep(task) == task
\* line 163: task.subtasks = []
ClearSubtasks(task) == [task EXCEPT !.subtasks = <<>>]

EnsureSubtasks_Noop(task) == task

\* lines 177-179: if (!task.subtasks) task.subtasks = []
EnsureSubtasks(task) ==
    IF task.hasSubtasks THEN task
    ELSE [task EXCEPT !.hasSubtasks = TRUE, !.subtasks = <<>>]

AppendSubtasks_MarkPending(task, newSubtasks) ==
    [task EXCEPT !.hasSubtasks = TRUE,
                 !.status = "pending",
                 !.subtasks = (IF task.hasSubtasks THEN task.subtasks ELSE <<>>)
                              \o newSubtasks]

\* lines 252-255: [...(subtasks || []), ...newSubtasks]
AppendSubtasks(task, newSubtasks) ==
    [task EXCEPT !.hasSubtasks = TRUE,
                 !.subtasks = (IF task.hasSubtasks THEN task.subtasks ELSE <<>>)
                              \o newSubtasks]

\* lines 33-47: a call of expandTaskDirect(args, log, context)
Invoke(p, a) ==
    /\ At(p, "idle")
    /\ calls < MaxCalls
    /\ calls' = calls + 1
    /\ inv' = [inv EXCEPT ![p] =
                  [IdleInv EXCEPT !.pc = "checkPath", !.args = a,
                                  !.callNo = calls + 1,
                                  !.file0 = file, !.bak0 = bak]]
    /\ UNCHANGED <<file, bak, silentMode, procEnv, resolveIn, resolveOut>>

\* lines 48-64
CheckPath(p) ==
    /\ At(p, "checkPath")
    /\ LET r == inv[p] IN
       inv' = [inv EXCEPT ![p] =
                  IF ~Truthy(r.args.tasksJsonPath)
                  THEN Return(r, Failure("MISSING_ARGUMENT",
                                         "tasksJsonPath is required"))
                  ELSE Goto(r, "checkId")]
    /\ UNCHANGED <<file, bak, silentMode, procEnv, calls, resolveIn, resolveOut>>

\* lines 66-84
CheckId(p) ==
    /\ At(p, "checkId")
    /\ LET r == inv[p]
           taskId == TaskIdOf(r.args.id)
       IN  inv' = [inv EXCEPT ![p] =
                      IF Falsy(taskId)
                      THEN Return(r, Failure("INPUT_VALIDATION_ERROR",
                                             "Task ID is required"))
                      ELSE [r EXCEPT !.pc = "read",
                                     !.taskId = taskId,
                                     !.numSubtasks = NumSubtasksOf(r.args.num),
                                     !.useResearch = r.args.research,
                                     !.forceFlag = ForceFlagOf(r.args.force)]]
    /\ UNCHANGED <<file, bak, silentMode, procEnv, calls, resolveIn, resolveOut>>

\* lines 86-110
ReadStore(p) ==
    /\ At(p, "read")
    /\ LET r == Log(inv[p], "read")
           data == readJSON(file)
       IN  inv' = [inv EXCEPT ![p] =
                      IF data.isNull \/ ~data.hasTasks
                      THEN Return(r, Failure("INVALID_TASKS_FILE",
                                             "No valid tasks found"))
                      ELSE [r EXCEPT !.pc = "find", !.data = data]]
    /\ UNCHANGED <<file, bak, silentMode, procEnv, calls, resolveIn, resolveOut>>

\* lines 112-126
FindTask(p) ==
    /\ At(p, "find")
    /\ LET r == inv[p]
           ix == FindIndex(r.data.tasks, r.taskId.val)
       IN  inv' = [inv EXCEPT ![p] =
                      IF ix = 0
                      THEN Return(r, Failure("TASK_NOT_FOUND", "Task not found"))
                      ELSE [r EXCEPT !.pc = "checkStatus", !.taskIx = ix]]
    /\ UNCHANGED <<file, bak, silentMode, procEnv, calls, resolveIn, resolveOut>>

CheckCompleted_AfterExisting(p) ==
    /\ At(p, "checkStatus")
    /\ LET r == inv[p] IN
       inv' = [inv EXCEPT ![p] =
                  IF HasExistingSubtasks(TheTask(r)) /\ ~r.forceFlag
                  THEN Return(r, Skipped(TheTask(r)))
                  ELSE IF IsCompleted(TheTask(r))
                  THEN Return(r, Failure("TASK_COMPLETED",
                                         "Task is already completed"))
                  ELSE Goto(r, "checkExisting")]
    /\ UNCHANGED <<file, bak, silentMode, procEnv, calls, resolveIn, resolveOut>>

\* lines 128-138
CheckCompleted(p) ==
    /\ At(p, "checkStatus")
    /\ LET r == inv[p] IN
       inv' = [inv EXCEPT ![p] =
                  IF IsCompleted(TheTask(r))
                  THEN Return(r, Failure("TASK_COMPLETED",
                                         "Task is already completed"))
                  ELSE Goto(r, "checkExisting")]
    /\ UNCHANGED <<file, bak, silentMode, procEnv, calls, resolveIn, resolveOut>>

CheckExisting_NoSkip(p) ==
    /\ At(p, "checkExisting")
    /\ LET r == inv[p] IN
       inv' = [inv EXCEPT ![p] =
                  [r EXCEPT !.pc = "snapshot",
                            !.hasExistingSubtasks = FALSE]]
    /\ UNCHANGED <<file, bak, silentMode, procEnv, calls, resolveIn, resolveOut>>

\* lines 140-156
CheckExisting(p) ==
    /\ At(p, "checkExisting")
    /\ LET r == inv[p]
           hasExistingSubtasks == HasExistingSubtasks(TheTask(r))
       IN  inv' = [inv EXCEPT ![p] =
                      IF hasExistingSubtasks /\ ~r.forceFlag
                      THEN Return(r, Skipped(TheTask(r)))
                      ELSE [r EXCEPT !.pc = "snapshot",
                                     !.hasExistingSubtasks = hasExistingSubtasks]]
    /\ UNCHANGED <<file, bak, silentMode, procEnv, calls, resolveIn, resolveOut>>

\* lines 158-170
Snapshot(p) ==
    /\ At(p, "snapshot")
    /\ LET r == inv[p]
           task == IF r.hasExistingSubtasks /\ r.forceFlag
                   THEN ClearSubtasks(TheTask(r)) ELSE TheTask(r)
       IN  inv' = [inv EXCEPT ![p] =
                      [r EXCEPT !.pc = "backup",
                                !.data.tasks[r.taskIx] = task,
                                !.originalTask = task,
                                !.subtasksCountBefore =
                                    IF task.hasSubtasks THEN Len(task.subtasks)
                                    ELSE 0]]
    /\ UNCHANGED <<file, bak, silentMode, procEnv, calls, resolveIn, resolveOut>>

Backup_IgnoreFailure(p, ioOK) ==
    /\ At(p, "backup")
    /\ LET r == inv[p] IN
       IF file.kind # "missing" /\ ioOK
       THEN /\ bak' = copyFileSync(file)
            /\ inv' = [inv EXCEPT ![p] = Goto(Log(r, "backup"), "prepare")]
       ELSE /\ bak' = bak
            /\ inv' = [inv EXCEPT ![p] = Goto(Log(r, "backup-failed"), "prepare")]
    /\ UNCHANGED <<file, silentMode, procEnv, calls, resolveIn, resolveOut>>

\* lines 172-174, and the outer catch of lines 293-303 when the copy throws
Backup(p, ioOK) ==
    /\ At(p, "backup")
    /\ LET r == inv[p] IN
       IF file.kind # "missing" /\ ioOK
       THEN /\ bak' = copyFileSync(file)
            /\ inv' = [inv EXCEPT ![p] = Goto(Log(r, "backup"), "prepare")]
       ELSE /\ bak' = bak
            /\ inv' = [inv EXCEPT ![p] =
                          Return(Log(r, "backup-failed"),
                                 Failure("CORE_FUNCTION_ERROR", "copyfile failed"))]
    /\ UNCHANGED <<file, silentMode, procEnv, calls, resolveIn, resolveOut>>

\* lines 176-182, and the outer catch of lines 293-303 when the write throws
PrepareWrite(p, ioOK) ==
    /\ At(p, "prepare")
    /\ LET r == [inv[p] EXCEPT !.data.tasks[inv[p].taskIx] =
                                   EnsureSubtasks(TheTask(inv[p]))]
       IN  IF ioOK
           THEN /\ file' = writeJSON(r.data)
                /\ inv' = [inv EXCEPT ![p] = Goto(Log(r, "write"), "prompt")]
           ELSE /\ file' = file
                /\ inv' = [inv EXCEPT ![p] =
                              Return(Log(r, "write-failed"),
                                     Failure("CORE_FUNCTION_ERROR", "write failed"))]
    /\ UNCHANGED <<bak, silentMode, procEnv, calls, resolveIn, resolveOut>>

\* lines 185-222: enableSilentMode (twice), nextSubtaskId, subtaskCount, prompts
BuildPrompt(p) ==
    /\ At(p, "prompt")
    /\ silentMode' = TRUE
    /\ LET r == inv[p] IN
       inv' = [inv EXCEPT ![p] =
                  [r EXCEPT !.pc = "callAI",
                            !.nextSubtaskId = NextSubtaskIdOf(TheTask(r)),
                            !.subtaskCount = SubtaskCountOf(r.numSubtasks)]]
    /\ UNCHANGED <<file, bak, procEnv, calls, resolveIn, resolveOut>>

\* the error leaves expandTaskDirect as an exception
Caught_Rethrow(r, msg) == [r EXCEPT !.pc = "threw"]

Caught_InputError(r, msg) == Return(r, Failure("INPUT_VALIDATION_ERROR", msg))

\* the inner catch of lines 279-292, reached with error message msg
Caught(r, msg) == Return(r, Failure("CORE_FUNCTION_ERROR", msg))

\* line 225, first half: callAIProvider resolves its provider; when resolution
\* throws, lines 229-234 and 279-292 run
CallAIProvider(p) ==
    /\ At(p, "callAI")
    /\ LET r == Log(inv[p], "resolve")
           model == getBestAvailableAIModel(
                        NoSessionEnv, procEnv,
                        [requiresResearch |-> r.useResearch,
                         claudeOverloaded |-> FALSE], TRUE)
       IN  IF model.ok
           THEN /\ silentMode' = silentMode
                /\ inv' = [inv EXCEPT ![p] =
                              [Log(r, "call") EXCEPT
                                  !.pc = "awaitAI",
                                  !.provider = model.type,
                                  !.concurrent =
                                      {inv[q].callNo :
                                          q \in {q \in Instances \ {p} :
                                                    inv[q].pc = "awaitAI"}}]]
           ELSE /\ silentMode' = FALSE
                /\ inv' = [inv EXCEPT ![p] = Caught(r, "AI Error: no provider")]
    /\ UNCHANGED <<file, bak, procEnv, calls, resolveIn, resolveOut>>

CompletionReturns_NoFinally(p, text) ==
    /\ At(p, "awaitAI")
    /\ silentMode' = silentMode
    /\ inv' = [inv EXCEPT ![p] =
                  [inv[p] EXCEPT !.pc = "parse", !.generatedSubtasksText = text]]
    /\ UNCHANGED <<file, bak, procEnv, calls, resolveIn, resolveOut>>

\* lines 225-234: the completion returns text; finally disableSilentMode
CompletionReturns(p, text) ==
    /\ At(p, "awaitAI")
    /\ silentMode' = FALSE
    /\ inv' = [inv EXCEPT ![p] =
                  [inv[p] EXCEPT !.pc = "parse", !.generatedSubtasksText = text]]
    /\ UNCHANGED <<file, bak, procEnv, calls, resolveIn, resolveOut>>

CompletionFails_Retry(p) ==
    /\ At(p, "awaitAI")
    /\ silentMode' = FALSE
    /\ inv' = [inv EXCEPT ![p] = Goto(inv[p], "callAI")]
    /\ UNCHANGED <<file, bak, procEnv, calls, resolveIn, resolveOut>>

\* lines 229-234 and 279-292: the completion throws or times out
CompletionFails(p) ==
    /\ At(p, "awaitAI")
    /\ silentMode' = FALSE
    /\ inv' = [inv EXCEPT ![p] = Caught(inv[p], "AI Error: call failed")]
    /\ UNCHANGED <<file, bak, procEnv, calls, resolveIn, resolveOut>>

ParseResponse_EnforceCount(p) ==
    /\ At(p, "parse")
    /\ LET r == inv[p]
           parsed == parseSubtasksFromText(r.generatedSubtasksText,
                                           r.nextSubtaskId, r.subtaskCount,
                                           TheTask(r).id)
       IN  IF ~parsed.ok \/ Len(parsed.subtasks) # r.subtaskCount
           THEN /\ silentMode' = FALSE
                /\ inv' = [inv EXCEPT ![p] =
                              Caught(r, "AI did not return valid subtasks.")]
           ELSE /\ silentMode' = silentMode
                /\ inv' = [inv EXCEPT ![p] =
                              [r EXCEPT !.pc = "commit",
                                        !.newSubtasks = parsed.subtasks]]
    /\ UNCHANGED <<file, bak, procEnv, calls, resolveIn, resolveOut>>

ParseResponse_Reprompt(p) ==
    /\ At(p, "parse")
    /\ LET r == inv[p]
           parsed == parseSubtasksFromText(r.generatedSubtasksText,
                                           r.nextSubtaskId, r.subtaskCount,
                                           TheTask(r).id)
       IN  IF ~parsed.ok \/ Len(parsed.subtasks) = 0
           THEN /\ silentMode' = FALSE
                /\ inv' = [inv EXCEPT ![p] = Goto(r, "prompt")]
           ELSE /\ silentMode' = silentMode
                /\ inv' = [inv EXCEPT ![p] =
                              [r EXCEPT !.pc = "commit",
                                        !.newSubtasks = parsed.subtasks]]
    /\ UNCHANGED <<file, bak, procEnv, calls, resolveIn, resolveOut>>

\* lines 236-247, and lines 279-292 when parsing throws or yields nothing
ParseResponse(p) ==
    /\ At(p, "parse")
    /\ LET r == inv[p]
           parsed == parseSubtasksFromText(r.generatedSubtasksText,
                                           r.nextSubtaskId, r.subtaskCount,
                                           TheTask(r).id)
       IN  IF ~parsed.ok
           THEN /\ silentMode' = FALSE
                /\ inv' = [inv EXCEPT ![p] = Caught(r, "malformed response")]
           ELSE IF Len(parsed.subtasks) = 0
           THEN /\ silentMode' = FALSE
                /\ inv' = [inv EXCEPT ![p] =
                              Caught(r, "AI did not return valid subtasks.")]
           ELSE /\ silentMode' = silentMode
                /\ inv' = [inv EXCEPT ![p] =
                              [r EXCEPT !.pc = "commit",
                                        !.newSubtasks = parsed.subtasks]]
    /\ UNCHANGED <<file, bak, procEnv, calls, resolveIn, resolveOut>>

\* lines 249-259, and lines 279-292 when the write throws
Commit(p, ioOK) ==
    /\ At(p, "commit")
    /\ LET r0 == inv[p]
           taskIndex == FindIndex(r0.data.tasks, r0.taskId.val)
       IN  IF taskIndex = 0
           THEN /\ file' = file
                /\ silentMode' = FALSE
                /\ inv' = [inv EXCEPT ![p] =
                              Caught(r0, "Task disappeared unexpectedly!")]
           ELSE LET r == [r0 EXCEPT !.data.tasks[taskIndex] =
                                        AppendSubtasks(r0.data.tasks[taskIndex],
                                                       r0.newSubtasks)]
                IN  IF ioOK
                    THEN /\ file' = writeJSON(r.data)
                         /\ silentMode' = silentMode
                         /\ inv' = [inv EXCEPT ![p] =
                                       Goto(Log(r, "write"), "unlink")]
                    ELSE /\ file' = file
                         /\ silentMode' = FALSE
                         /\ inv' = [inv EXCEPT ![p] =
                                       Caught(Log(r, "write-failed"), "write failed")]
    /\ UNCHANGED <<bak, procEnv, calls, resolveIn, resolveOut>>

RemoveBackup_Tolerant(p, ioOK) ==
    /\ At(p, "unlink")
    /\ LET r == inv[p] IN
       IF ioOK
       THEN /\ bak' = Missing
            /\ silentMode' = silentMode
            /\ inv' = [inv EXCEPT ![p] =
                          Return(Log(r, "unlink"),
                                 Expanded(r.originalTask, r.newSubtasks,
                                          Len(r.newSubtasks),
                                          Len(TheTask(r).subtasks)))]
       ELSE /\ bak' = bak
            /\ silentMode' = FALSE
            /\ inv' = [inv EXCEPT ![p] =
                          Caught(Log(r, "unlink-failed"), "unlink failed")]
    /\ UNCHANGED <<file, procEnv, calls, resolveIn, resolveOut>>

\* lines 261-278, and lines 279-292 when the unlink throws (fs.unlinkSync
\* throws when the backup file is not there)
RemoveBackup(p, ioOK) ==
    /\ At(p, "unlink")
    /\ LET r == inv[p] IN
       IF bak.kind # "missing" /\ ioOK
       THEN /\ bak' = Missing
            /\ silentMode' = silentMode
            /\ inv' = [inv EXCEPT ![p] =
                          Return(Log(r, "unlink"),
                                 Expanded(r.originalTask, r.newSubtasks,
                                          Len(r.newSubtasks),
                                          Len(TheTask(r).subtasks)))]
       ELSE /\ bak' = bak
            /\ silentMode' = FALSE
            /\ inv' = [inv EXCEPT ![p] =
                          Caught(Log(r, "unlink-failed"), "unlink failed")]
    /\ UNCHANGED <<file, procEnv, calls, resolveIn, resolveOut>>

\* the caller has taken the result: the instance is ready for another call
Forget(p) ==
    /\ At(p, "returned")
    /\ inv' = [inv EXCEPT ![p] = IdleInv]
    /\ UNCHANGED <<file, bak, silentMode, procEnv, calls, resolveIn, resolveOut>>

\* the environments the pipeline is run in: no credentials at all, or Google as
\* the primary family with Google and Perplexity credentials
PipelineEnvs ==
    {[ANTHROPIC_API_KEY |-> Undefined, GOOGLE_API_KEY |-> Undefined,
      PERPLEXITY_API_KEY |-> Undefined, AI_PROVIDER |-> Undefined],
     [ANTHROPIC_API_KEY |-> Undefined, GOOGLE_API_KEY |-> "proc-key",
      PERPLEXITY_API_KEY |-> "proc-key", AI_PROVIDER |-> "google"]}

\* one pipeline instance, invoked again and again: at most one expansion is in
\* flight against the store file at a time
Init ==
    /\ file \in InitFiles
    /\ bak = Missing
    /\ silentMode = FALSE
    /\ procEnv \in PipelineEnvs
    /\ calls = 0
    /\ inv = [p \in {1} |-> IdleInv]
    /\ resolveIn = NoResolve
    /\ resolveOut = NoResolve

Next ==
    \/ \E p \in Instances, a \in Args : Invoke(p, a)
    \/ \E p \in Instances : CheckPath(p)
    \/ \E p \in Instances : CheckId(p)
    \/ \E p \in Instances : ReadStore(p)
    \/ \E p \in Instances : FindTask(p)
    \/ \E p \in Instances : CheckCompleted(p)
    \/ \E p \in Instances : CheckExisting(p)
    \/ \E p \in Instances : Snapshot(p)
    \/ \E p \in Instances, ioOK \in BOOLEAN : Backup(p, ioOK)
    \/ \E p \in Instances, ioOK \in BOOLEAN : PrepareWrite(p, ioOK)
    \/ \E p \in Instances : BuildPrompt(p)
    \/ \E p \in Instances : CallAIProvider(p)
    \/ \E p \in Instances : \E text \in Texts(inv[p].callNo) :
           CompletionReturns(p, text)
    \/ \E p \in Instances : CompletionFails(p)
    \/ \E p \in Instances : ParseResponse(p)
    \/ \E p \in Instances, ioOK \in BOOLEAN : Commit(p, ioOK)
    \/ \E p \in Instances, ioOK \in BOOLEAN : RemoveBackup(p, ioOK)
    \/ \E p \in Instances : Forget(p)

Spec == Init /\ [][Next]_vars

---------------------------------------------------------------------------
(* Two pipeline instances on the same store file                           *)

\* the requests of the concurrent runs: valid ones, on either task
ConcArgs ==
    [tasksJsonPath : {"tasks.json"}, id : {"1", "2"}, num : {Undefined},
     research : {FALSE}, force : {"true", Undefined}]

\* the stores of the concurrent runs: both tasks can be expanded
ConcFiles ==
    {JsonFile(TRUE, <<t1, t2>>) :
        t1 \in {t \in FirstTasks : t.status = "pending"}, t2 \in SecondTasks}

\* the completions of the concurrent runs: no array, an empty one, one subtask
ConcTexts(c) == {t \in Texts(c) : Len(t.ids) <= 1}

\* two callers of the MCP tool: the second expandTaskDirect can start while the
\* first is suspended in its await
InitConc ==
    /\ file \in ConcFiles
    /\ bak = Missing
    /\ silentMode = FALSE
    /\ procEnv \in {e \in PipelineEnvs : Truthy(e.GOOGLE_API_KEY)}
    /\ calls = 0
    /\ inv = [p \in {1, 2} |-> IdleInv]
    /\ resolveIn = NoResolve
    /\ resolveOut = NoResolve

NextConc ==
    \/ \E p \in Instances, a \in ConcArgs : Invoke(p, a)
    \/ \E p \in Instances : CheckPath(p)
    \/ \E p \in Instances : CheckId(p)
    \/ \E p \in Instances : ReadStore(p)
    \/ \E p \in Instances : FindTask(p)
    \/ \E p \in Instances : CheckCompleted(p)
    \/ \E p \in Instances : CheckExisting(p)
    \/ \E p \in Instances : Snapshot(p)
    \/ \E p \in Instances, ioOK \in BOOLEAN : Backup(p, ioOK)
    \/ \E p \in Instances, ioOK \in BOOLEAN : PrepareWrite(p, ioOK)
    \/ \E p \in Instances : BuildPrompt(p)
    \/ \E p \in Instances : CallAIProvider(p)
    \/ \E p \in Instances : \E text \in ConcTexts(inv[p].callNo) :
           CompletionReturns(p, text)
    \/ \E p \in Instances : CompletionFails(p)
    \/ \E p \in Instances : ParseResponse(p)
    \/ \E p \in Instances, ioOK \in BOOLEAN : Commit(p, ioOK)
    \/ \E p \in Instances, ioOK \in BOOLEAN : RemoveBackup(p, ioOK)
    \/ \E p \in Instances : Forget(p)

SpecConc == InitConc /\ [][NextConc]_vars

---------------------------------------------------------------------------
(* Properties of expandTaskDirect                                          *)

Returned(p) == inv[p].pc = "returned"
Did(p, op) == \E i \in 1..Len(inv[p].ops) : inv[p].ops[i] = op

\* the request and the store as they were when the invocation started, read
\* from the arguments and the file rather than from the pipeline's locals
ArgsValid(p) ==
    /\ inv[p].args.tasksJsonPath = "tasks.json"
    /\ inv[p].args.id \in {"1", "2", "3"}
RequestedId(p) ==
    CASE inv[p].args.id = "1" -> 1
      [] inv[p].args.id = "2" -> 2
      [] inv[p].args.id = "3" -> 3
      [] OTHER -> 0
HasTask(content, id) ==
    /\ content.kind = "json"
    /\ content.hasTasks
    /\ \E i \in 1..Len(content.tasks) : content.tasks[i].id = id
TaskIn(content, id) ==
    content.tasks[CHOOSE i \in 1..Len(content.tasks) : content.tasks[i].id = id]
TargetAtStart(p) == TaskIn(inv[p].file0, RequestedId(p))
TargetOnDisk(p) == TaskIn(file, RequestedId(p))
TargetExists(p) == ArgsValid(p) /\ HasTask(inv[p].file0, RequestedId(p))
Terminal(task) == task.status \in {"done", "completed"}
ForceGiven(p) == inv[p].args.force = "true"

\* the completion call was issued and the invocation failed without reaching
\* the commit: the call failed or timed out, or its text did not parse, or
\* parsed to nothing
GenerationFailed(p) ==
    /\ Returned(p)
    /\ inv[p].result.kind = "error"
    /\ inv[p].ops = <<"read", "backup", "write", "resolve", "call">>

\* C1: after an expand that passed validation and whose completion call failed
\* or returned unparsable or empty content, the store file equals the store file
\* before the invocation, for force=false and force=true.
C1_GenerationFailureAtomic ==
    \A p \in Instances : GenerationFailed(p) => file = inv[p].file0

\* C2: expand without force=true on a non-terminal task with at least one
\* subtask returns success with subtasksAdded=0 and hasExistingSubtasks=true,
\* having only read the store: no write, no backup, no provider call; the store
\* file and the backup file are what they were.
C2_NoOpIdempotent ==
    \A p \in Instances :
        ( /\ Returned(p)
          /\ TargetExists(p)
          /\ ~Terminal(TargetAtStart(p))
          /\ TargetAtStart(p).hasSubtasks
          /\ Len(TargetAtStart(p).subtasks) >= 1
          /\ ~ForceGiven(p) ) =>
        /\ inv[p].result.success
        /\ inv[p].result.subtasksAdded = 0
        /\ inv[p].result.hasExistingSubtasks
        /\ inv[p].ops = <<"read">>
        /\ file = inv[p].file0
        /\ bak = inv[p].bak0

\* a second invocation is skipped as well, a backup from a failed run lying by
C2_Witness ==
    \E p \in Instances :
        /\ Returned(p)
        /\ inv[p].result.kind = "skipped"
        /\ inv[p].callNo = 2
        /\ inv[p].args.force = Undefined
        /\ bak # Missing

\* C3: expand on a task with status done or completed returns TASK_COMPLETED
\* whatever force, num and the subtasks are, having only read the store.
C3_TerminalGuard ==
    \A p \in Instances :
        (Returned(p) /\ TargetExists(p) /\ Terminal(TargetAtStart(p))) =>
        /\ ~inv[p].result.success
        /\ inv[p].result.code = "TASK_COMPLETED"
        /\ inv[p].ops = <<"read">>
        /\ file = inv[p].file0
        /\ bak = inv[p].bak0

C3_Witness ==
    \E p \in Instances :
        /\ Returned(p)
        /\ inv[p].result.code = "TASK_COMPLETED"
        /\ ForceGiven(p)
        /\ TargetAtStart(p).status = "completed"
        /\ Len(TargetAtStart(p).subtasks) = 2

\* the subtasks the parser made of the completion's array, in its order
ParsedOf(p) ==
    [i \in 1..Len(inv[p].generatedSubtasksText.ids) |->
        Subtask(inv[p].generatedSubtasksText.ids[i], inv[p].callNo)]

ForcedSuccess(p) ==
    /\ Returned(p)
    /\ inv[p].result.kind = "expanded"
    /\ ForceGiven(p)
    /\ Len(TargetAtStart(p).subtasks) >= 1

\* C4: after a successful expand with force=true on a task that had subtasks,
\* the task's subtasks in the store file are exactly the newly generated ones in
\* the parser's order, and none of the earlier subtasks remains.
C4_ForceRegenerates ==
    \A p \in Instances :
        ForcedSuccess(p) =>
        /\ HasTask(file, RequestedId(p))
        /\ TargetOnDisk(p).subtasks = ParsedOf(p)
        /\ inv[p].result.newSubtasks = ParsedOf(p)
        /\ \A i \in 1..Len(TargetOnDisk(p).subtasks) :
               TargetOnDisk(p).subtasks[i].batch = inv[p].callNo

C4_Witness ==
    \E p \in Instances :
        /\ ForcedSuccess(p)
        /\ Len(TargetAtStart(p).subtasks) = 2
        /\ Len(TargetOnDisk(p).subtasks) = 2

\* C5: with n subtasks on the task at generation time, the start id given to the
\* prompt and the parser is n+1, and after a successful expand that generated k
\* subtasks their ids are n+1 .. n+k in order.
C5_SequentialIds ==
    \A p \in Instances :
        /\ inv[p].pc \in {"callAI", "awaitAI", "parse", "commit"} =>
               inv[p].nextSubtaskId = Len(TargetOnDisk(p).subtasks) + 1
        /\ (Returned(p) /\ inv[p].result.kind = "expanded") =>
               LET subs == TargetOnDisk(p).subtasks
                   k == inv[p].result.subtasksAdded
                   n == Len(subs) - k
               IN  /\ k >= 1
                   /\ n >= 0
                   /\ inv[p].nextSubtaskId = n + 1
                   /\ \A i \in 1..k :
                          /\ subs[n + i].id = n + i
                          /\ subs[n + i].batch = inv[p].callNo
                          /\ inv[p].result.newSubtasks[i] = subs[n + i]

C5_Witness ==
    \E p \in Instances :
        /\ Returned(p)
        /\ inv[p].result.kind = "expanded"
        /\ inv[p].result.subtasksAdded = 2
        /\ TargetOnDisk(p).subtasks = <<Subtask(1, inv[p].callNo),
                                        Subtask(2, inv[p].callNo)>>

WritesBefore(ops, i) ==
    Cardinality({j \in 1..(i - 1) : ops[j] = "write"})

\* C6: the backup is taken before the first write to the store; it is removed
\* only right after the commit write succeeded; and when an invocation fails
\* after taking the backup, the backup file exists on return and holds what the
\* store file held when the invocation started.
C6_BackupLifecycle ==
    \A p \in Instances :
        LET ops == inv[p].ops IN
        /\ \A i \in 1..Len(ops) :
               ops[i] \in {"write", "write-failed"} =>
                   \E j \in 1..(i - 1) : ops[j] = "backup"
        /\ \A i \in 1..Len(ops) :
               ops[i] \in {"unlink", "unlink-failed"} =>
                   /\ i > 1
                   /\ ops[i - 1] = "write"
                   /\ WritesBefore(ops, i) = 2
        /\ (Did(p, "backup") /\ ~Did(p, "unlink")) =>
               (bak # Missing /\ bak = inv[p].file0)
        /\ (Returned(p) /\ inv[p].result.kind = "error" /\ Did(p, "backup")) =>
               (bak # Missing /\ bak = inv[p].file0)

\* the commit write fails after a force-expand cleared two subtasks
C6_Witness ==
    \E p \in Instances :
        /\ Returned(p)
        /\ inv[p].result.kind = "error"
        /\ inv[p].ops = <<"read", "backup", "write", "resolve", "call",
                          "write-failed">>
        /\ bak = inv[p].file0
        /\ bak # file

---------------------------------------------------------------------------
(* Properties of provider resolution                                       *)

Resolved == resolveOut # NoResolve

\* what the environment holds, independently of the resolver's own tests
HasAnthropicKey ==
    Truthy(resolveIn.session.ANTHROPIC_API_KEY) \/ Truthy(procEnv.ANTHROPIC_API_KEY)
HasGoogleKey ==
    Truthy(resolveIn.session.GOOGLE_API_KEY) \/ Truthy(procEnv.GOOGLE_API_KEY)
HasPerplexityKey ==
    Truthy(resolveIn.session.PERPLEXITY_API_KEY) \/ Truthy(procEnv.PERPLEXITY_API_KEY)

\* the AI_PROVIDER setting in force (session first), and whether it selects Google
ProviderSetting ==
    IF Truthy(resolveIn.session.AI_PROVIDER) THEN resolveIn.session.AI_PROVIDER
    ELSE procEnv.AI_PROVIDER
PrimaryIsGoogle == ProviderSetting \in {"google", "Google", "GOOGLE"}
PrimaryType == IF PrimaryIsGoogle THEN "google" ELSE "claude"
OtherType == IF PrimaryIsGoogle THEN "claude" ELSE "google"
HasKeyOf(type) ==
    CASE type = "google" -> HasGoogleKey
      [] type = "claude" -> HasAnthropicKey
      [] type = "perplexity" -> HasPerplexityKey
      [] OTHER -> FALSE

ResearchWithoutPerplexity ==
    Resolved /\ resolveIn.options.requiresResearch /\ ~HasPerplexityKey

\* C7 as stated: with needsResearch=true and no Perplexity credentials, resolve
\* returns the primary-family profile for every credential configuration and
\* never fails.
C7_ResearchFallbackAlwaysBinds ==
    ResearchWithoutPerplexity =>
        resolveOut.ok /\ resolveOut.type = PrimaryType

\* C7 amended: with needsResearch=true and no Perplexity credentials, resolve
\* returns the primary-family profile (google when the primary family is GOOGLE,
\* otherwise claude) whenever that family's credentials are present.
C7_ResearchFallbackBindsPrimary ==
    (ResearchWithoutPerplexity /\ HasKeyOf(PrimaryType)) =>
        resolveOut.ok /\ resolveOut.type = PrimaryType

C7_Witness ==
    /\ ResearchWithoutPerplexity
    /\ PrimaryIsGoogle
    /\ ~HasAnthropicKey
    /\ resolveOut.ok
    /\ resolveOut.type = "google"

\* a tier is usable when its constructor would return a client
PerplexityUsable == HasPerplexityKey /\ resolveIn.openaiOK
PerplexityInPolicy ==
    resolveIn.options.requiresResearch \/ resolveIn.options.claudeOverloaded

\* C8: resolve fails only when no tier of the policy (research provider,
\* alternate conversational provider, primary family, other known family) has
\* usable credentials; a failed tier never ends resolution while a later tier
\* could still bind.
C8_FailsOnlyWhenNoTierUsable ==
    (Resolved /\ ~resolveOut.ok) =>
        /\ ~HasAnthropicKey
        /\ ~HasGoogleKey
        /\ (PerplexityInPolicy => ~PerplexityUsable)

\* the overload branch is reached: the research branches neither returned nor threw
OverloadBranch ==
    /\ Resolved
    /\ resolveIn.options.claudeOverloaded
    /\ ~(resolveIn.options.requiresResearch /\ ~HasPerplexityKey)
    /\ ~(resolveIn.options.requiresResearch /\ PerplexityUsable)

\* the constructors called in the overload branch (after the research attempt)
OverloadAttempts ==
    IF resolveIn.options.requiresResearch /\ Len(resolveOut.attempts) > 0
    THEN Tail(resolveOut.attempts) ELSE resolveOut.attempts

Rank(type) ==
    CASE type = "google" -> 1 [] type = "perplexity" -> 2 [] type = "claude" -> 3
      [] OTHER -> 0

\* C9: with primaryOverloaded=true (research branches not taken), resolve tries
\* Google if configured, then Perplexity if configured, then Claude, in that
\* order, returns the first that binds, and fails only if none binds.
C9_OverloadOrder ==
    OverloadBranch =>
        LET att == OverloadAttempts
            expected == IF HasGoogleKey THEN "google"
                        ELSE IF PerplexityUsable THEN "perplexity"
                        ELSE IF HasAnthropicKey THEN "claude"
                        ELSE "none"
        IN  /\ resolveOut.type = expected
            /\ resolveOut.ok <=> (expected # "none")
            /\ \A i \in 1..Len(att) : Rank(att[i]) > 0
            /\ \A i, j \in 1..Len(att) : i < j => Rank(att[i]) < Rank(att[j])
            /\ HasGoogleKey => ("google" \in {att[i] : i \in 1..Len(att)})
            /\ (HasPerplexityKey /\ ~HasGoogleKey) =>
                   ("perplexity" \in {att[i] : i \in 1..Len(att)})
            /\ Len(att) > 0
            /\ resolveOut.ok => att[Len(att)] = resolveOut.type
            /\ ~resolveOut.ok => att[Len(att)] = "claude"

C9_Witness ==
    /\ OverloadBranch
    /\ resolveOut.ok
    /\ resolveOut.type = "claude"
    /\ OverloadAttempts = <<"google", "perplexity", "claude">>

DefaultPath ==
    /\ Resolved
    /\ ~resolveIn.options.requiresResearch
    /\ ~resolveIn.options.claudeOverloaded

\* C10: on the default path resolve binds the primary family when its
\* credentials are present, otherwise the other known family when that one's
\* credentials are present, and fails only when both families lack credentials.
C10_DefaultPath ==
    DefaultPath =>
        /\ HasKeyOf(PrimaryType) => (resolveOut.ok /\ resolveOut.type = PrimaryType)
        /\ (~HasKeyOf(PrimaryType) /\ HasKeyOf(OtherType)) =>
               (resolveOut.ok /\ resolveOut.type = OtherType)
        /\ ~resolveOut.ok => (~HasAnthropicKey /\ ~HasGoogleKey)

ResearchWithPerplexity ==
    Resolved /\ resolveIn.options.requiresResearch /\ HasPerplexityKey

\* C11: with needsResearch=true and Perplexity credentials present, resolve
\* returns the perplexity profile when the research client can be constructed,
\* whatever primaryOverloaded and the primary family are; when its construction
\* fails, resolution goes on with the overload tiers (primaryOverloaded) or the
\* default tiers and binds what they bind, instead of failing there.
C11_ResearchBinding ==
    ResearchWithPerplexity =>
        /\ resolveIn.openaiOK =>
               /\ resolveOut.ok
               /\ resolveOut.type = "perplexity"
               /\ resolveOut.attempts = <<"perplexity">>
        /\ ~resolveIn.openaiOK =>
               /\ Len(resolveOut.attempts) >= 2
               /\ resolveOut.attempts[1] = "perplexity"
               /\ resolveOut.error # "No AI models available for research"
               /\ (resolveIn.options.claudeOverloaded /\ HasGoogleKey) =>
                      (resolveOut.ok /\ resolveOut.type = "google")
               /\ (resolveIn.options.claudeOverloaded /\ ~HasGoogleKey
                     /\ HasAnthropicKey) =>
                      (resolveOut.ok /\ resolveOut.type = "claude")
               /\ (~resolveIn.options.claudeOverloaded /\ HasKeyOf(PrimaryType)) =>
                      (resolveOut.ok /\ resolveOut.type = PrimaryType)

\* the research client is bound although the primary is overloaded and Google
\* is the primary family with its own credentials
C11_Witness ==
    /\ ResearchWithPerplexity
    /\ resolveIn.openaiOK
    /\ resolveIn.options.claudeOverloaded
    /\ PrimaryIsGoogle
    /\ HasGoogleKey
    /\ resolveOut.ok
    /\ resolveOut.type = "perplexity"


---------------------------------------------------------------------------
(* Properties of expandTaskDirect: results and error paths                 *)

\* the positions of an invocation inside expandTaskDirect, and outside it with
\* a result in hand
Positions ==
    {"idle", "checkPath", "checkId", "read", "find", "checkStatus",
     "checkExisting", "snapshot", "backup", "prepare", "prompt", "callAI",
     "awaitAI", "parse", "commit", "unlink", "returned"}

ErrorCodes ==
    {"MISSING_ARGUMENT", "INPUT_VALIDATION_ERROR", "INVALID_TASKS_FILE",
     "TASK_NOT_FOUND", "TASK_COMPLETED", "CORE_FUNCTION_ERROR",
     "NO_PROVIDER_AVAILABLE"}

FailedOps == {"backup-failed", "write-failed", "unlink-failed"}

LastOp(p) ==
    IF Len(inv[p].ops) = 0 THEN "none" ELSE inv[p].ops[Len(inv[p].ops)]

CountOp(p, op) == Cardinality({i \in 1..Len(inv[p].ops) : inv[p].ops[i] = op})

Untouched(p) ==
    /\ inv[p].ops = <<>>
    /\ file = inv[p].file0
    /\ bak = inv[p].bak0

OnlyRead(p) ==
    /\ inv[p].ops = <<"read">>
    /\ file = inv[p].file0
    /\ bak = inv[p].bak0

FailedWith(p, code) ==
    /\ Returned(p)
    /\ ~inv[p].result.success
    /\ inv[p].result.kind = "error"
    /\ inv[p].result.code = code

\* C12: every invocation of expand ends in a structured result, { success: true,
\* data } or { success: false, error: { code, message } } with a code of the
\* closed set; a failed read, backup, write, provider resolution, completion,
\* parse or backup removal ends the invocation with such a failure result, and
\* no invocation is ever left by an exception.
C12_StructuredResult ==
    \A p \in Instances :
        LET res == inv[p].result IN
        /\ inv[p].pc \in Positions
        /\ Returned(p) <=> res.returned
        /\ Returned(p) =>
               /\ res.success =>
                      (res.kind \in {"skipped", "expanded"} /\ res.code = "")
               /\ ~res.success =>
                      /\ res.kind = "error"
                      /\ res.code \in ErrorCodes
                      /\ res.message # ""
        /\ LastOp(p) \in FailedOps \cup {"resolve"} =>
               (Returned(p) /\ ~res.success /\ res.code \in ErrorCodes)
        /\ (inv[p].pc \in Suspended \ {"awaitAI"} /\ LastOp(p) = "call") =>
               (Returned(p) /\ ~res.success /\ res.code \in ErrorCodes)

\* the backup removal throws after the commit write went through
C12_Witness ==
    \E p \in Instances :
        /\ Returned(p)
        /\ LastOp(p) = "unlink-failed"
        /\ inv[p].result.kind = "error"
        /\ inv[p].result.code = "CORE_FUNCTION_ERROR"
        /\ inv[p].result.message # ""

StoreInvalid(content) == content.kind # "json" \/ ~content.hasTasks

\* C13: with valid arguments, a store that cannot be read or holds no tasks
\* gives INVALID_TASKS_FILE, and a store without the requested task gives
\* TASK_NOT_FOUND; in both cases the store was only read: no write, no backup,
\* no completion call.
C13_StorePreconditions ==
    \A p \in Instances :
        (Returned(p) /\ ArgsValid(p)) =>
            /\ StoreInvalid(inv[p].file0) =>
                   (FailedWith(p, "INVALID_TASKS_FILE") /\ OnlyRead(p))
            /\ (~StoreInvalid(inv[p].file0)
                  /\ ~HasTask(inv[p].file0, RequestedId(p))) =>
                   (FailedWith(p, "TASK_NOT_FOUND") /\ OnlyRead(p))

\* task 3 is asked for with force, a backup of an earlier failed run lying by
C13_Witness ==
    \E p \in Instances :
        /\ FailedWith(p, "TASK_NOT_FOUND")
        /\ inv[p].args.id = "3"
        /\ ForceGiven(p)
        /\ bak # Missing
        /\ bak = inv[p].bak0

\* C14: a missing store path gives MISSING_ARGUMENT, and (the path given) a
\* task id that is missing or does not parse to a non-zero integer gives
\* INPUT_VALIDATION_ERROR; the store file is not read, no backup is made,
\* nothing is written and no completion call is issued; the path is checked
\* before the id.
C14_InputErrors ==
    \A p \in Instances :
        /\ (Returned(p) /\ inv[p].args.tasksJsonPath = Undefined) =>
               (FailedWith(p, "MISSING_ARGUMENT") /\ Untouched(p))
        /\ (Returned(p) /\ inv[p].args.tasksJsonPath = "tasks.json"
              /\ inv[p].args.id \in {Undefined, "abc", "0"}) =>
               (FailedWith(p, "INPUT_VALIDATION_ERROR") /\ Untouched(p))
        /\ inv[p].pc = "checkId" => inv[p].args.tasksJsonPath = "tasks.json"
        /\ inv[p].pc \in {"checkPath", "checkId"} => Untouched(p)

\* path and id are both bad: the path is reported
C14_Witness ==
    \E p \in Instances :
        /\ FailedWith(p, "MISSING_ARGUMENT")
        /\ inv[p].args.tasksJsonPath = Undefined
        /\ inv[p].args.id = "abc"
        /\ Untouched(p)

\* process.env holds no credentials at all
NoCredentials ==
    /\ ~Truthy(procEnv.ANTHROPIC_API_KEY)
    /\ ~Truthy(procEnv.GOOGLE_API_KEY)
    /\ ~Truthy(procEnv.PERPLEXITY_API_KEY)

\* the completion's text is an array of at least one subtask numbered from the
\* start id on
ValidText(p) ==
    LET text == inv[p].generatedSubtasksText IN
    /\ text.kind = "array"
    /\ Len(text.ids) >= 1
    /\ \A i \in 1..Len(text.ids) : text.ids[i] = inv[p].nextSubtaskId + i - 1

\* the store file holds, on task id, a subtask generated by invocation c
BatchIn(content, id, c) ==
    /\ HasTask(content, id)
    /\ \E i \in 1..Len(TaskIn(content, id).subtasks) :
           TaskIn(content, id).subtasks[i].batch = c

BatchOnDisk(p) == BatchIn(file, RequestedId(p), inv[p].callNo)

NotCommitted(p) ==
    /\ CountOp(p, "write") = 1
    /\ ~Did(p, "unlink")
    /\ ~Did(p, "unlink-failed")
    /\ ~BatchOnDisk(p)
    /\ bak # Missing

\* C15: once validation has passed, a failed provider resolution, a failed or
\* timed-out completion call, a response that does not parse and a response that
\* parses to nothing each end in CORE_FUNCTION_ERROR, the commit write not made
\* and the backup not removed.
C15_GenerationFailures ==
    \A p \in Instances :
        /\ (Did(p, "resolve") /\ NoCredentials) =>
               /\ FailedWith(p, "CORE_FUNCTION_ERROR")
               /\ inv[p].ops = <<"read", "backup", "write", "resolve">>
               /\ NotCommitted(p)
        /\ (Returned(p) /\ Did(p, "call") /\ inv[p].generatedSubtasksText = NoText) =>
               /\ FailedWith(p, "CORE_FUNCTION_ERROR")
               /\ inv[p].ops = <<"read", "backup", "write", "resolve", "call">>
               /\ NotCommitted(p)
        /\ (inv[p].generatedSubtasksText # NoText /\ ~ValidText(p)
              /\ inv[p].pc # "parse") =>
               /\ FailedWith(p, "CORE_FUNCTION_ERROR")
               /\ inv[p].ops = <<"read", "backup", "write", "resolve", "call">>
               /\ NotCommitted(p)

\* the completion answers with an empty array
C15_Witness ==
    \E p \in Instances :
        /\ FailedWith(p, "CORE_FUNCTION_ERROR")
        /\ inv[p].generatedSubtasksText.kind = "array"
        /\ inv[p].generatedSubtasksText.ids = <<>>
        /\ NotCommitted(p)
        /\ bak = inv[p].file0

\* C16: a successful expand that went through generation returns subtasksAdded
\* = the length of the parsed list, newSubtasks = that list, totalSubtasks =
\* the number of subtasks of the target in the written store file, and a task
\* with the target's id and title.
C16_SuccessCounts ==
    \A p \in Instances :
        (Returned(p) /\ inv[p].result.kind = "expanded") =>
            LET res == inv[p].result IN
            /\ res.success
            /\ res.subtasksAdded = Len(ParsedOf(p))
            /\ res.subtasksAdded >= 1
            /\ res.newSubtasks = ParsedOf(p)
            /\ HasTask(file, RequestedId(p))
            /\ res.totalSubtasks = Len(TargetOnDisk(p).subtasks)
            /\ res.task.id = RequestedId(p)
            /\ res.task.id = TargetAtStart(p).id
            /\ res.task.title = TargetAtStart(p).title

\* a task without subtasks gets every subtask of the longest response drawn
C16_Witness ==
    \E p \in Instances :
        /\ Returned(p)
        /\ inv[p].result.kind = "expanded"
        /\ ~TargetAtStart(p).hasSubtasks
        /\ Len(inv[p].generatedSubtasksText.ids) = MaxGen
        /\ inv[p].result.subtasksAdded = MaxGen
        /\ inv[p].result.totalSubtasks = MaxGen

\* C19: within one invocation the provider is resolved at most once and the
\* completion call issued at most once; after a failed call or a failed parse
\* expand returns with that one call made.
C19_NoRetry ==
    \A p \in Instances :
        /\ CountOp(p, "resolve") <= 1
        /\ CountOp(p, "call") <= 1
        /\ (Returned(p) /\ Did(p, "call") /\ ~Did(p, "unlink")
              /\ inv[p].result.kind = "error") =>
               (CountOp(p, "call") = 1 /\ CountOp(p, "resolve") = 1)

\* the completion call throws: the invocation is over after that one call
C19_Witness ==
    \E p \in Instances :
        /\ FailedWith(p, "CORE_FUNCTION_ERROR")
        /\ LastOp(p) = "call"
        /\ inv[p].generatedSubtasksText = NoText
        /\ CountOp(p, "call") = 1

Generating(p) ==
    \/ inv[p].pc \in {"callAI", "awaitAI", "parse", "commit", "unlink"}
    \/ Returned(p) /\ Did(p, "resolve")

\* C20: the subtask count given to the prompt and the parser is 5 when num is
\* absent, empty, zero or not a number, and n when num is the positive
\* integer n.
C20_DefaultCount ==
    \A p \in Instances :
        Generating(p) =>
            /\ inv[p].args.num \in {Undefined, "", "0", "abc"} =>
                   inv[p].subtaskCount = 5
            /\ inv[p].args.num = "1" => inv[p].subtaskCount = 1
            /\ inv[p].args.num = "2" => inv[p].subtaskCount = 2

\* num is "0": the completion is asked for 5 subtasks
C20_Witness ==
    \E p \in Instances :
        /\ inv[p].pc = "awaitAI"
        /\ inv[p].args.num = "0"
        /\ inv[p].subtaskCount = 5

---------------------------------------------------------------------------
(* Properties of concurrent invocations                                    *)

\* the completion calls of p and q were in flight at the same time
Overlapped(p, q) ==
    \/ inv[q].callNo \in inv[p].concurrent
    \/ inv[p].callNo \in inv[q].concurrent

\* p and q, on different tasks, overlapped in their completion calls and both
\* made their commit write
ConcurrentCommits(p, q) ==
    /\ p # q
    /\ Returned(p)
    /\ Returned(q)
    /\ Overlapped(p, q)
    /\ RequestedId(p) # RequestedId(q)
    /\ CountOp(p, "write") = 2
    /\ CountOp(q, "write") = 2

\* p returned success and its subtasks were overwritten by the commit of q
LostTo(p, q) ==
    /\ ConcurrentCommits(p, q)
    /\ inv[p].result.kind = "expanded"
    /\ ~BatchOnDisk(p)
    /\ BatchOnDisk(q)

C18_SuppressionWindow ==
    \A p \in Instances : inv[p].pc = "awaitAI" => silentMode


---------------------------------------------------------------------------
(* Properties of expandTaskDirect: what a failure leaves behind            *)

TargetIndex(content, id) ==
    CHOOSE i \in 1..Len(content.tasks) : content.tasks[i].id = id

\* the store of the start of the invocation with the target's subtasks emptied
PreparedStore(p) ==
    [inv[p].file0 EXCEPT
        !.tasks[TargetIndex(inv[p].file0, RequestedId(p))] =
            [@ EXCEPT !.hasSubtasks = TRUE, !.subtasks = <<>>]]

\* the invocation failed in Generating or at the commit write
FailedPastPreparing(p) ==
    /\ Returned(p)
    /\ inv[p].result.kind = "error"
    /\ inv[p].ops \in
           {<<"read", "backup", "write", "resolve">>,
            <<"read", "backup", "write", "resolve", "call">>,
            <<"read", "backup", "write", "resolve", "call", "write-failed">>}

\* C21: when expand fails in Generating or at the commit write, the store file
\* holds what Preparing wrote (the target with an empty subtasks list, the
\* subtasks of a force-expanded task gone), the backup file holds the content
\* from before the invocation, and nothing has been copied back.
C21_NoAutoRestore ==
    \A p \in Instances :
        FailedPastPreparing(p) =>
            /\ TargetExists(p)
            /\ file = PreparedStore(p)
            /\ bak = inv[p].file0
            /\ TargetOnDisk(p).hasSubtasks
            /\ TargetOnDisk(p).subtasks = <<>>
            /\ (~TargetAtStart(p).hasSubtasks
                  \/ Len(TargetAtStart(p).subtasks) >= 1) => file # inv[p].file0

\* the commit write fails after a force-expand of a task with two subtasks
C21_Witness ==
    \E p \in Instances :
        /\ FailedPastPreparing(p)
        /\ LastOp(p) = "write-failed"
        /\ ForceGiven(p)
        /\ Len(TargetAtStart(p).subtasks) = 2
        /\ TargetOnDisk(p).subtasks = <<>>
        /\ bak = inv[p].file0

\* the outcome of the first check that applies, from the arguments and the
\* store as they were when the invocation started
FirstCheck(p) ==
    IF inv[p].args.tasksJsonPath \in {Undefined, ""} THEN "MISSING_ARGUMENT"
    ELSE IF inv[p].args.id \notin {"1", "2", "3"} THEN "INPUT_VALIDATION_ERROR"
    ELSE IF StoreInvalid(inv[p].file0) THEN "INVALID_TASKS_FILE"
    ELSE IF ~HasTask(inv[p].file0, RequestedId(p)) THEN "TASK_NOT_FOUND"
    ELSE IF Terminal(TargetAtStart(p)) THEN "TASK_COMPLETED"
    ELSE IF /\ TargetAtStart(p).hasSubtasks
            /\ Len(TargetAtStart(p).subtasks) >= 1
            /\ ~ForceGiven(p)
         THEN "skipped"
    ELSE "proceed"

\* C22: expand returns the outcome of the first check that applies, in the
\* order missing store path, invalid task id, unreadable store, task absent,
\* terminal status, existing subtasks without force; a done or completed task
\* with subtasks and no force gives TASK_COMPLETED, not the no-op success.
C22_ValidationOrder ==
    \A p \in Instances :
        Returned(p) =>
            /\ FirstCheck(p) \in ErrorCodes => FailedWith(p, FirstCheck(p))
            /\ FirstCheck(p) = "skipped" =>
                   (inv[p].result.success /\ inv[p].result.kind = "skipped")
            /\ FirstCheck(p) = "proceed" =>
                   (Did(p, "backup") \/ Did(p, "backup-failed"))
            /\ inv[p].result.kind = "skipped" => FirstCheck(p) = "skipped"

C22_Witness ==
    \E p \in Instances :
        /\ FailedWith(p, "TASK_COMPLETED")
        /\ TargetAtStart(p).status = "done"
        /\ Len(TargetAtStart(p).subtasks) = 2
        /\ ~ForceGiven(p)
        /\ inv[p].ops = <<"read">>

\* the tasks of two store contents agree except for the subtasks of task id
SameButSubtasks(before, after, id) ==
    /\ after.kind = "json"
    /\ after.hasTasks = before.hasTasks
    /\ Len(after.tasks) = Len(before.tasks)
    /\ \A i \in 1..Len(before.tasks) :
           IF before.tasks[i].id = id
           THEN /\ after.tasks[i].id = before.tasks[i].id
                /\ after.tasks[i].title = before.tasks[i].title
                /\ after.tasks[i].status = before.tasks[i].status
           ELSE after.tasks[i] = before.tasks[i]

\* C23: a successful expand on task t changes, in the store file, only the
\* subtasks of t: the other tasks, the order of the tasks, and the id, title
\* and status of t are what they were; the backup file it made is gone again.
C23_SuccessFrame ==
    \A p \in Instances :
        (Returned(p) /\ inv[p].result.kind = "expanded") =>
            /\ SameButSubtasks(inv[p].file0, file, RequestedId(p))
            /\ TargetOnDisk(p).subtasks # TargetAtStart(p).subtasks
            /\ bak = Missing

\* task 2, in progress with one subtask, is force-expanded
C23_Witness ==
    \E p \in Instances :
        /\ Returned(p)
        /\ inv[p].result.kind = "expanded"
        /\ RequestedId(p) = 2
        /\ TargetOnDisk(p).status = "in-progress"
        /\ file.tasks[1] = inv[p].file0.tasks[1]
        /\ file # inv[p].file0

\* C24: the number of parsed subtasks is not compared with subtaskCount: a
\* non-empty parsed list of any length m is taken in full, committed and
\* reported as subtasksAdded = m; of the parse results only the empty or null
\* one is rejected.
C24_CountMismatchAccepted ==
    \A p \in Instances :
        (inv[p].generatedSubtasksText # NoText /\ ValidText(p)) =>
            LET m == Len(inv[p].generatedSubtasksText.ids) IN
            /\ inv[p].pc \in {"parse", "commit", "unlink", "returned"}
            /\ inv[p].pc \in {"commit", "unlink", "returned"} =>
                   inv[p].newSubtasks = ParsedOf(p)
            /\ Returned(p) => LastOp(p) # "call"
            /\ (Returned(p) /\ LastOp(p) \in {"unlink", "unlink-failed"}) =>
                   /\ Len(TargetOnDisk(p).subtasks) = m
                   /\ TargetOnDisk(p).subtasks = ParsedOf(p)
            /\ (Returned(p) /\ LastOp(p) = "unlink") =>
                   /\ inv[p].result.kind = "expanded"
                   /\ inv[p].result.subtasksAdded = m

\* one subtask was asked for and two are committed
C24_Witness ==
    \E p \in Instances :
        /\ Returned(p)
        /\ inv[p].result.kind = "expanded"
        /\ inv[p].subtaskCount = 1
        /\ inv[p].result.subtasksAdded = 2
        /\ Len(TargetOnDisk(p).subtasks) = 2

\* C25: when the backup copy fails, expand returns CORE_FUNCTION_ERROR with the
\* underlying message and writes nothing: neither the Preparing write nor the
\* commit write is made, and the store file is what it was, the subtasks that
\* force=true cleared in memory included.
C25_BackupFailure ==
    \A p \in Instances :
        Did(p, "backup-failed") =>
            /\ FailedWith(p, "CORE_FUNCTION_ERROR")
            /\ inv[p].result.message # ""
            /\ inv[p].ops = <<"read", "backup-failed">>
            /\ file = inv[p].file0
            /\ bak = inv[p].bak0

\* the copy fails after force cleared two subtasks in memory
C25_Witness ==
    \E p \in Instances :
        /\ Did(p, "backup-failed")
        /\ Returned(p)
        /\ ForceGiven(p)
        /\ Len(TargetAtStart(p).subtasks) = 2
        /\ Len(inv[p].data.tasks[inv[p].taskIx].subtasks) = 0
        /\ TargetOnDisk(p).subtasks = TargetAtStart(p).subtasks

SubtasksOf(content, id) ==
    IF HasTask(content, id)
    THEN {TaskIn(content, id).subtasks[i] :
              i \in 1..Len(TaskIn(content, id).subtasks)}
    ELSE {}

\* no commit write has been made to the store so far
NeverCommitted(content) ==
    content.kind = "json" =>
        \A i \in 1..Len(content.tasks) :
            \A j \in 1..Len(content.tasks[i].subtasks) :
                content.tasks[i].subtasks[j].batch = 0

\* the oldest content at hand when the invocation started: the backup kept
\* from an earlier failure, or else the store file
RetainedAtStart(p) ==
    IF inv[p].bak0 # Missing THEN inv[p].bak0 ELSE inv[p].file0

\* C26: when every invocation so far has failed after Preparing, the subtasks
\* the target task had before the first of them are still in the store file or
\* in the backup file: a further failed expand does not replace the retained
\* backup by the already cleared store.
C26_Recoverable ==
    \A p \in Instances :
        (FailedPastPreparing(p) /\ NeverCommitted(inv[p].file0)) =>
            SubtasksOf(RetainedAtStart(p), RequestedId(p)) \subseteq
                (SubtasksOf(file, RequestedId(p)) \cup
                 SubtasksOf(bak, RequestedId(p)))

\* C27: when expand returns success=false, the store file does not hold the
\* subtasks that invocation generated; a failed backup removal after the commit
\* write does not give a failure result.
C27_FailureNotCommitted ==
    \A p \in Instances :
        (Returned(p) /\ ~inv[p].result.success) => ~BatchOnDisk(p)

TargetInMemory(p) == inv[p].data.tasks[inv[p].taskIx]

StartsEmpty(p) ==
    /\ Generating(p) =>
           /\ inv[p].nextSubtaskId = 1
           /\ inv[p].subtasksCountBefore = 0
    /\ inv[p].pc \in {"callAI", "awaitAI", "parse"} =>
           /\ TargetInMemory(p).subtasks = <<>>
           /\ TargetOnDisk(p).subtasks = <<>>
    /\ (Returned(p) /\ inv[p].result.kind = "expanded") =>
           inv[p].result.totalSubtasks = inv[p].result.subtasksAdded

---------------------------------------------------------------------------
(* Properties of provider resolution: credentials                          *)

\* the credential of a provider type, the session environment first
CredentialOf(type) ==
    CASE type = "claude" ->
             IF Truthy(resolveIn.session.ANTHROPIC_API_KEY)
             THEN resolveIn.session.ANTHROPIC_API_KEY
             ELSE procEnv.ANTHROPIC_API_KEY
      [] type = "google" ->
             IF Truthy(resolveIn.session.GOOGLE_API_KEY)
             THEN resolveIn.session.GOOGLE_API_KEY
             ELSE procEnv.GOOGLE_API_KEY
      [] type = "perplexity" ->
             IF Truthy(resolveIn.session.PERPLEXITY_API_KEY)
             THEN resolveIn.session.PERPLEXITY_API_KEY
             ELSE procEnv.PERPLEXITY_API_KEY
      [] OTHER -> Undefined

\* C30: every profile resolve returns has a type of claude, google or
\* perplexity, and the credential of that type is present in the session or
\* the process environment and is the one the client was built with, the
\* session's first.
C30_BoundProfileHasCredentials ==
    (Resolved /\ resolveOut.ok) =>
        /\ resolveOut.type \in {"claude", "google", "perplexity"}
        /\ HasKeyOf(resolveOut.type)
        /\ Truthy(CredentialOf(resolveOut.type))
        /\ resolveOut.apiKey = CredentialOf(resolveOut.type)

\* both environments hold a Google key: the session's is bound
C30_Witness ==
    /\ Resolved
    /\ resolveOut.ok
    /\ resolveOut.type = "google"
    /\ resolveIn.session.GOOGLE_API_KEY = "sess-key"
    /\ procEnv.GOOGLE_API_KEY = "proc-key"
    /\ resolveOut.apiKey = "sess-key"

SettingUnset == ~Truthy(ProviderSetting)

\* C31: on the default path resolve succeeds, whatever the AI_PROVIDER setting
\* is (unset, google or anthropic in any letter case, or an unrecognised
\* value), whenever an Anthropic or a Google credential is present; an unset
\* setting is treated as ANTHROPIC.
C31_PrimarySettingTotal ==
    DefaultPath =>
        /\ (HasAnthropicKey \/ HasGoogleKey) => resolveOut.ok
        /\ (SettingUnset /\ HasAnthropicKey) => resolveOut.type = "claude"
        /\ (SettingUnset /\ ~HasAnthropicKey /\ HasGoogleKey) =>
               resolveOut.type = "google"

---------------------------------------------------------------------------
(* Termination: one invocation of expandTaskDirect, or one call of         *)
(* getBestAvailableAIModel, run to its end                                 *)

\* the requests of the terminating runs: every path, id and force, num absent
LiveArgs == {a \in Args : a.num = Undefined}

\* the resolver calls of the terminating runs: no session environment
LiveResolveInputs ==
    [session : {NoSessionEnv}, options : Options, openaiOK : BOOLEAN]

\* either the pipeline is about to be invoked, or the resolver is about to be
\* called with no pipeline running
InitLive ==
    \/ /\ file \in InitFiles
       /\ bak = Missing
       /\ silentMode = FALSE
       /\ procEnv \in PipelineEnvs
       /\ calls = 0
       /\ inv = [p \in {1} |-> IdleInv]
       /\ resolveIn = NoResolve
       /\ resolveOut = NoResolve
    \/ /\ file = Missing
       /\ bak = Missing
       /\ silentMode = FALSE
       /\ procEnv \in ProcessEnvs
       /\ calls = MaxCalls
       /\ inv = [p \in {1} |-> IdleInv]
       /\ resolveIn \in LiveResolveInputs
       /\ resolveOut = NoResolve

ResolveLive == resolveIn # NoResolve /\ Resolve

\* the synchronous stretches of an invocation
SyncSteps(p) ==
    \/ CheckPath(p)
    \/ CheckId(p)
    \/ ReadStore(p)
    \/ FindTask(p)
    \/ CheckCompleted(p)
    \/ CheckExisting(p)
    \/ Snapshot(p)
    \/ \E ioOK \in BOOLEAN : Backup(p, ioOK)
    \/ \E ioOK \in BOOLEAN : PrepareWrite(p, ioOK)
    \/ BuildPrompt(p)
    \/ CallAIProvider(p)
    \/ ParseResponse(p)
    \/ \E ioOK \in BOOLEAN : Commit(p, ioOK)
    \/ \E ioOK \in BOOLEAN : RemoveBackup(p, ioOK)

\* the awaited completion call settles: it returns text or throws
Completion(p) ==
    \/ \E text \in Texts(inv[p].callNo) : CompletionReturns(p, text)
    \/ CompletionFails(p)

NextLive ==
    \/ \E p \in Instances, a \in LiveArgs : Invoke(p, a)
    \/ \E p \in Instances : CheckPath(p)
    \/ \E p \in Instances : CheckId(p)
    \/ \E p \in Instances : ReadStore(p)
    \/ \E p \in Instances : FindTask(p)
    \/ \E p \in Instances : CheckCompleted(p)
    \/ \E p \in Instances : CheckExisting(p)
    \/ \E p \in Instances : Snapshot(p)
    \/ \E p \in Instances, ioOK \in BOOLEAN : Backup(p, ioOK)
    \/ \E p \in Instances, ioOK \in BOOLEAN : PrepareWrite(p, ioOK)
    \/ \E p \in Instances : BuildPrompt(p)
    \/ \E p \in Instances : CallAIProvider(p)
    \/ \E p \in Instances : \E text \in Texts(inv[p].callNo) :
           CompletionReturns(p, text)
    \/ \E p \in Instances : CompletionFails(p)
    \/ \E p \in Instances : ParseResponse(p)
    \/ \E p \in Instances, ioOK \in BOOLEAN : Commit(p, ioOK)
    \/ \E p \in Instances, ioOK \in BOOLEAN : RemoveBackup(p, ioOK)
    \/ \E p \in Instances : Forget(p)
    \/ ResolveLive

\* the JavaScript engine runs every synchronous stretch that is ready, the
\* awaited completion call settles, and a started resolver call runs to its end
SpecLive ==
    /\ InitLive
    /\ [][NextLive]_vars
    /\ WF_vars(SyncSteps(1))
    /\ WF_vars(Completion(1))
    /\ WF_vars(ResolveLive)

\* the positions of expandTaskDirect in program order
PcOrder ==
    <<"idle", "checkPath", "checkId", "read", "find", "checkStatus",
      "checkExisting", "snapshot", "backup", "prepare", "prompt", "callAI",
      "awaitAI", "parse", "commit", "unlink", "returned">>

PcRank(label) == CHOOSE i \in 1..Len(PcOrder) : PcOrder[i] = label

Running(p) == inv[p].pc \notin {"idle", "returned"}

\* every started invocation returns
EveryInvocationReturns == Running(1) ~> Returned(1)

\* within an invocation the position only moves forward
NoPositionRevisited ==
    [][\A p \in Instances :
           (inv[p].pc # "returned" /\ inv'[p].pc # inv[p].pc) =>
               PcRank(inv'[p].pc) > PcRank(inv[p].pc)]_vars

\* every started resolver call returns a profile or throws
ResolveReturns == (resolveIn # NoResolve) ~> Resolved

TimesAttempted(type) ==
    Cardinality({i \in 1..Len(resolveOut.attempts) : resolveOut.attempts[i] = type})

\* C32 as stated: every invocation reaches a returned result once the
\* completion call returns or fails, no position of the pipeline is revisited,
\* and resolve attempts each provider tier at most once before it returns a
\* profile or fails.
C32_EachTierAtMostOnce ==
    /\ EveryInvocationReturns
    /\ NoPositionRevisited
    /\ ResolveReturns
    /\ [](Resolved =>
            \A type \in {"claude", "google", "perplexity"} :
                TimesAttempted(type) <= 1)

\* C32 amended: every invocation reaches a returned result once the completion
\* call returns or fails, no position of the pipeline is revisited, and resolve
\* returns a profile or fails after at most four attempts: Google and Claude
\* at most once each, and the research provider at most twice, the second time
\* only as an overload fallback after its construction failed in the research
\* step.
C32_Termination ==
    /\ EveryInvocationReturns
    /\ NoPositionRevisited
    /\ ResolveReturns
    /\ [](Resolved =>
            /\ Len(resolveOut.attempts) <= 4
            /\ TimesAttempted("claude") <= 1
            /\ TimesAttempted("google") <= 1
            /\ TimesAttempted("perplexity") <= 2
            /\ TimesAttempted("perplexity") = 2 =>
                   /\ resolveIn.options.requiresResearch
                   /\ resolveIn.options.claudeOverloaded
                   /\ ~resolveIn.openaiOK
                   /\ HasPerplexityKey)

\* an invocation has gone through every position and returned its expansion
C32_Witness ==
    /\ Returned(1)
    /\ inv[1].result.kind = "expanded"
    /\ inv[1].ops = <<"read", "backup", "write", "resolve", "call", "write",
                      "unlink">>

=============================================================================
